---- MODULE Spec2Model ----
(***************************************************************************)
(* A model of server.js: the model readiness gate (loadModel), the result  *)
(* cache (generationCache, cleanCache, getCacheKey), the generation         *)
(* orchestrator (generateOptimizedSet), the extractor and the cleaners      *)
(* (parseAndExtractPoints, cleanUpPoint, cleanUpSinglePoint), the fallback  *)
(* list and the POST /api/generate handler.                                 *)
(*                                                                          *)
(* A JavaScript string is a sequence of one-character strings.  null and    *)
(* the empty string are both the empty sequence: the cleaners return either *)
(* null or a non-empty string and every caller only tests the result for    *)
(* truthiness, under which null and "" agree.                               *)
(***************************************************************************)
EXTENDS Integers, Sequences, FiniteSets, TLC

\* ------------------------------------------------------------------------
\* Numbers (server.js 363)
\* ------------------------------------------------------------------------

\* The number NaN: parseInt of a count that does not start with an integer.
\* requestedCount is NaN or an integer in 1..5, so that -1 stands for NaN
\* without clashing with a number.  Every comparison with NaN is false.
NaN == -1

IsNaN(x) == x = NaN

\* a >= b
AtLeast(a, b) == ~IsNaN(a) /\ ~IsNaN(b) /\ a >= b

\* a < b
Below(a, b) == ~IsNaN(a) /\ ~IsNaN(b) /\ a < b

\* ------------------------------------------------------------------------
\* Characters and strings
\* ------------------------------------------------------------------------

Lower ==
    <<"a","b","c","d","e","f","g","h","i","j","k","l","m",
      "n","o","p","q","r","s","t","u","v","w","x","y","z">>

Upper ==
    <<"A","B","C","D","E","F","G","H","I","J","K","L","M",
      "N","O","P","Q","R","S","T","U","V","W","X","Y","Z">>

DigitChars == <<"0","1","2","3","4","5","6","7","8","9">>

InSeq(c, alphabet) == \E i \in 1..Len(alphabet) : alphabet[i] = c

IndexOf(c, alphabet) == CHOOSE i \in 1..Len(alphabet) : alphabet[i] = c

IsLower(c) == InSeq(c, Lower)

IsUpper(c) == InSeq(c, Upper)

\* \d
DIGITS == {"0","1","2","3","4","5","6","7","8","9"}

IsDigit(c) == c \in DIGITS

\* \s
SPACES == {" ", "\n", "\t"}

IsSpace(c) == c \in SPACES

\* [.!?]
TERMINATORS == {".", "!", "?"}

IsTerminator(c) == c \in TERMINATORS

\* What [^\n\d] excludes
NEWLINE_AND_DIGITS == {"\n"} \cup DIGITS

\* [^\n\d]
NotNewlineNorDigit(c) == c \notin NEWLINE_AND_DIGITS

\* The bullet glyph U+2022, written as one symbolic character
BULLET == "U+2022"

\* [<U+2022>\-\*\d+\.]
IsBulletOrNumber(c) == c \in {BULLET, "-", "*", "+", "."} \/ IsDigit(c)

upperChar(c) == IF IsLower(c) THEN Upper[IndexOf(c, Lower)] ELSE c

lowerChar(c) == IF IsUpper(c) THEN Lower[IndexOf(c, Upper)] ELSE c

\* String.prototype.toLowerCase
toLowerCase(s) == [i \in 1..Len(s) |-> lowerChar(s[i])]

\* text.charAt(0).toUpperCase() + text.slice(1)
capitalize(s) == IF s = <<>> THEN s ELSE <<upperChar(s[1])>> \o Tail(s)

\* The least of the indices `stops`, all of them >= i; `none` when there are none
FirstStop(stops, i, none) ==
    IF stops = {} THEN none
    ELSE CHOOSE j \in stops : \A k \in i..(j - 1) : k \notin stops

\* The end of a greedy [chars]* started at index i: the first index j >= i
\* whose character is not in chars, Len(s)+1 when there is none
SpanEnd(s, i, chars) ==
    FirstStop({j \in i..Len(s) : s[j] \notin chars}, i, Len(s) + 1)

\* The end of a greedy [^chars]* started at index i
SpanEndNot(s, i, chars) ==
    FirstStop({j \in i..Len(s) : s[j] \in chars}, i, Len(s) + 1)

\* s.slice(i - 1): the suffix from the 1-based index i
From(s, i) == SubSeq(s, i, Len(s))

\* s between the first and the last of its indices in `inked`
Between(s, inked) ==
    IF inked = {} THEN <<>>
    ELSE SubSeq(s, CHOOSE a \in inked : \A k \in 1..(a - 1) : k \notin inked,
                   CHOOSE b \in inked : \A k \in (b + 1)..Len(s) : k \notin inked)

\* String.prototype.trim
trim(s) == Between(s, {j \in 1..Len(s) : ~IsSpace(s[j])})

\* s.startsWith(w) at the 1-based index i
StartsWithAt(s, i, w) ==
    /\ i + Len(w) - 1 <= Len(s)
    /\ \A k \in 1..Len(w) : s[i + k - 1] = w[k]

\* String.prototype.includes
includes(s, w) == \E i \in 1..(Len(s) - Len(w) + 1) : StartsWithAt(s, i, w)

\* String.prototype.substring(0, n)
substring0(s, n) == SubSeq(s, 1, IF n < Len(s) THEN n ELSE Len(s))

\* Array.prototype.slice(0, n) for n >= 0 and for NaN, which slice takes as 0
slice0(xs, n) ==
    IF IsNaN(n) THEN <<>> ELSE SubSeq(xs, 1, IF n < Len(xs) THEN n ELSE Len(xs))

\* text.match(/[.!?]$/)
endsWithTerminator(s) == s # <<>> /\ IsTerminator(s[Len(s)])

\* "undefined"
UNDEFINED_WORD == <<"u","n","d","e","f","i","n","e","d">>

\* "null"
NULL_WORD == <<"n","u","l","l">>

\* ------------------------------------------------------------------------
\* Cleaners (server.js 258-302)
\* ------------------------------------------------------------------------

\* The alternatives of /^(is that|that|because|by|through|and|but|or|so|also)\s+/i,
\* in the order the regular expression tries them
FILLERS ==
    << <<"i","s"," ","t","h","a","t">>, <<"t","h","a","t">>,
       <<"b","e","c","a","u","s","e">>, <<"b","y">>,
       <<"t","h","r","o","u","g","h">>, <<"a","n","d">>, <<"b","u","t">>,
       <<"o","r">>, <<"s","o">>, <<"a","l","s","o">> >>

\* The alternatives of /^(it\s+|this\s+|they\s+)/i
PRONOUNS == << <<"i","t">>, <<"t","h","i","s">>, <<"t","h","e","y">> >>

\* A leading word of `words` (case-insensitively) followed by \s+ : the index
\* of the first alternative that matches, 0 when none does
FirstAlternative(hits) ==
    IF hits = {} THEN 0 ELSE CHOOSE n \in hits : \A m \in hits : n <= m

LeadingWord(s, words) ==
    FirstAlternative({n \in 1..Len(words) :
                         /\ Len(s) > Len(words[n])
                         /\ IsSpace(s[Len(words[n]) + 1])
                         /\ toLowerCase(SubSeq(s, 1, Len(words[n]))) = words[n]})

\* What follows the leading word and its \s+
AfterLeadingWord(s, n, words) == From(s, SpanEnd(s, Len(words[n]) + 1, SPACES))

\* text.replace(/^(is that|that|because|by|through|and|but|or|so|also)\s+/i, ''),
\* n the alternative that matches
stripFillerAt(s, n) == IF n = 0 THEN s ELSE AfterLeadingWord(s, n, FILLERS)

stripFiller(s) == stripFillerAt(s, LeadingWord(s, FILLERS))

\* text.replace(/^\s*[<U+2022>\-\*\d+\.]\s*/, ''), a the index after ^\s*
stripMarkerAt(s, a) ==
    IF a <= Len(s) /\ IsBulletOrNumber(s[a])
    THEN From(s, SpanEnd(s, a + 1, SPACES))
    ELSE s

stripMarker(s) == stripMarkerAt(s, SpanEnd(s, 1, SPACES))

\* text.replace(/^(it\s+|this\s+|they\s+)/i, `${topic} `), n the alternative
\* that matches
replacePronounAt(s, topic, n) ==
    IF n = 0 THEN s ELSE topic \o <<" ">> \o AfterLeadingWord(s, n, PRONOUNS)

replacePronoun(s, topic) == replacePronounAt(s, topic, LeadingWord(s, PRONOUNS))

MIN_RAW_LENGTH == 5

MIN_CLEAN_LENGTH == 10

MAX_POINT_LENGTH == 200

\* if (!text.match(/[.!?]$/)) text += '.'
terminate(s) == IF endsWithTerminator(s) THEN s ELSE s \o <<".">>

\* The final validation (server.js 278-280)
validPoint(text) ==
    IF \/ includes(text, UNDEFINED_WORD)
       \/ includes(text, NULL_WORD)
       \/ Len(text) > MAX_POINT_LENGTH
    THEN <<>>
    ELSE text

\* Capitalisation, the terminator and the validation of a cleaned text
\* (server.js 267-282)
finishPoint(text) ==
    IF Len(text) < MIN_CLEAN_LENGTH THEN <<>>
    ELSE validPoint(terminate(capitalize(text)))

cleanUpPoint(text, topic) ==
    IF text = <<>> \/ Len(text) < MIN_RAW_LENGTH THEN <<>>
    ELSE finishPoint(trim(replacePronoun(stripMarker(stripFiller(text)), topic)))

MIN_SINGLE_LENGTH == 8

\* text.split(/[.!?]/)[0]
firstFragment(s) == SubSeq(s, 1, SpanEndNot(s, 1, TERMINATORS) - 1)

\* The fragment as a statement about the topic (server.js 293-299)
singlePoint(cleanText, topic) ==
    IF Len(cleanText) > MIN_SINGLE_LENGTH
    THEN topic \o <<" ">> \o terminate(capitalize(cleanText))
    ELSE <<>>

cleanUpSinglePoint(text, topic) ==
    IF text = <<>> THEN <<>>
    ELSE singlePoint(trim(firstFragment(trim(text))), topic)

\* ------------------------------------------------------------------------
\* Fallback list (server.js 305-315)
\* ------------------------------------------------------------------------

\* ' provides significant benefits for users.'
FB1 ==
    <<" ","p","r","o","v","i","d","e","s"," ","s","i","g","n","i","f","i","c","a","n","t"," ",
      "b","e","n","e","f","i","t","s"," ","f","o","r"," ","u","s","e","r","s",".">>
\* ' has been shown to be effective in various applications.'
FB2 ==
    <<" ","h","a","s"," ","b","e","e","n"," ","s","h","o","w","n"," ","t","o"," ","b","e"," ",
      "e","f","f","e","c","t","i","v","e"," ","i","n"," ","v","a","r","i","o","u","s"," ","a",
      "p","p","l","i","c","a","t","i","o","n","s",".">>
\* ' offers practical solutions for common challenges.'
FB3 ==
    <<" ","o","f","f","e","r","s"," ","p","r","a","c","t","i","c","a","l"," ","s","o","l","u",
      "t","i","o","n","s"," ","f","o","r"," ","c","o","m","m","o","n"," ","c","h","a","l","l",
      "e","n","g","e","s",".">>
\* ' represents an important advancement in its field.'
FB4 ==
    <<" ","r","e","p","r","e","s","e","n","t","s"," ","a","n"," ","i","m","p","o","r","t","a",
      "n","t"," ","a","d","v","a","n","c","e","m","e","n","t"," ","i","n"," ","i","t","s"," ",
      "f","i","e","l","d",".">>
\* ' contributes to improved outcomes and efficiency.'
FB5 ==
    <<" ","c","o","n","t","r","i","b","u","t","e","s"," ","t","o"," ","i","m","p","r","o","v",
      "e","d"," ","o","u","t","c","o","m","e","s"," ","a","n","d"," ","e","f","f","i","c","i",
      "e","n","c","y",".">>

FALLBACK_TAILS == <<FB1, FB2, FB3, FB4, FB5>>

fallbacks(topic) == [i \in 1..Len(FALLBACK_TAILS) |-> topic \o FALLBACK_TAILS[i]]

\* generateFallbackPoints without its slice(0, count): the variant that
\* C2_AtMostRequestedCount has to tell from the code
unslicedFallbackPoints(topic, count) == fallbacks(topic)

generateFallbackPoints(topic, count) == slice0(fallbacks(topic), count)

\* ------------------------------------------------------------------------
\* Extractor (server.js 223-255)
\* ------------------------------------------------------------------------

\* text.replace(/\n+/g, '\n')
RECURSIVE collapseNewlines(_)
collapseNewlines(s) ==
    IF Len(s) < 2 THEN s
    ELSE IF s[1] = "\n" /\ s[2] = "\n" THEN collapseNewlines(Tail(s))
    ELSE <<s[1]>> \o collapseNewlines(Tail(s))

\* One match of /\d+\.\s*([^\n\d]+)/ started at index i: the index after
\* its last character, 0 when there is no match at i.  \s* is greedy and
\* gives characters back until [^\n\d]+ finds one to start on: cand are
\* the indices it can start on.
captureEnd(s, cand) ==
    IF cand = {} THEN 0
    ELSE SpanEndNot(s, CHOOSE q \in cand : \A o \in cand : o <= q,
                    NEWLINE_AND_DIGITS)

\* j the index after \d+
afterDigits(s, j) ==
    IF j > Len(s) \/ s[j] # "." THEN 0
    ELSE captureEnd(s, {p \in (j + 1)..SpanEnd(s, j + 1, SPACES) :
                           p <= Len(s) /\ NotNewlineNorDigit(s[p])})

numberedMatchEnd(s, i) ==
    IF i > Len(s) \/ ~IsDigit(s[i]) THEN 0
    ELSE afterDigits(s, SpanEnd(s, i, DIGITS))

\* text.match(/\d+\.\s*([^\n\d]+)/g), the matches from index i on
RECURSIVE numberedMatches(_, _)
matchesFrom(s, i, e) ==
    IF e = 0 THEN numberedMatches(s, i + 1)
    ELSE <<SubSeq(s, i, e - 1)>> \o numberedMatches(s, e)

numberedMatches(s, i) ==
    IF i > Len(s) THEN <<>> ELSE matchesFrom(s, i, numberedMatchEnd(s, i))

\* match.replace(/^\d+\.\s*/, '') for a match of the expression above
stripNumber(match) ==
    From(match, SpanEnd(match, SpanEnd(match, 1, DIGITS) + 1, SPACES))

\* The loop over numberedMatches (server.js 232-239)
RECURSIVE numberedLoop(_, _, _, _)
numberedPush(rest, points, topic, expectedCount, cleanPoint) ==
    IF cleanPoint = <<>>
    THEN numberedLoop(rest, points, topic, expectedCount)
    ELSE IF AtLeast(Len(points) + 1, expectedCount)
         THEN Append(points, cleanPoint)
         ELSE numberedLoop(rest, Append(points, cleanPoint), topic,
                           expectedCount)

numberedLoop(matches, points, topic, expectedCount) ==
    IF matches = <<>> THEN points
    ELSE numberedPush(Tail(matches), points, topic, expectedCount,
                      cleanUpPoint(trim(stripNumber(Head(matches))), topic))

\* text.split(/[.!?]+/)
RECURSIVE splitSentences(_)
splitAt(s, e) ==
    IF e > Len(s) THEN <<s>>
    ELSE <<SubSeq(s, 1, e - 1)>>
             \o splitSentences(From(s, SpanEnd(s, e, TERMINATORS)))

splitSentences(s) == splitAt(s, SpanEndNot(s, 1, TERMINATORS))

MIN_SENTENCE_LENGTH == 15

DEDUP_PREFIX_LENGTH == 20

MIN_POINT_LENGTH == 10

\* The loop over sentences (server.js 245-251)
RECURSIVE sentenceLoop(_, _, _, _)
sentencePush(rest, points, topic, expectedCount, cleanPoint) ==
    IF /\ cleanPoint # <<>>
       /\ ~\E i \in 1..Len(points) :
              includes(points[i], substring0(cleanPoint, DEDUP_PREFIX_LENGTH))
    THEN sentenceLoop(rest, Append(points, cleanPoint), topic, expectedCount)
    ELSE sentenceLoop(rest, points, topic, expectedCount)

sentenceLoop(sentences, points, topic, expectedCount) ==
    IF sentences = <<>> \/ AtLeast(Len(points), expectedCount) THEN points
    ELSE sentencePush(Tail(sentences), points, topic, expectedCount,
                      cleanUpPoint(trim(Head(sentences)), topic))

\* points.filter(p => p && p.length > 10)
keepLongPoints(points) == SelectSeq(points, LAMBDA p : Len(p) > MIN_POINT_LENGTH)

\* text.split(/[.!?]+/).filter(s => s.trim().length > 15)
longSentences(text) ==
    SelectSeq(splitSentences(text), LAMBDA x : Len(trim(x)) > MIN_SENTENCE_LENGTH)

\* The sentence pass, taken when the numbered pass left too few points
\* (server.js 242-252)
sentencePass(points, text, topic, expectedCount) ==
    IF Below(Len(points), expectedCount)
    THEN sentenceLoop(longSentences(text), points, topic, expectedCount)
    ELSE points

\* The points of the numbered pass over the normalised text
numberedPoints(text, topic, expectedCount) ==
    numberedLoop(numberedMatches(text, 1), <<>>, topic, expectedCount)

\* The points both passes have pushed, which counted toward expectedCount
acceptedPoints(text, topic, expectedCount) ==
    sentencePass(numberedPoints(text, topic, expectedCount), text, topic,
                 expectedCount)

\* Both passes and the final filter over the normalised text
extractPoints(text, topic, expectedCount) ==
    keepLongPoints(acceptedPoints(text, topic, expectedCount))

parseAndExtractPoints(rawText, topic, expectedCount) ==
    extractPoints(trim(collapseNewlines(rawText)), topic, expectedCount)

\* ------------------------------------------------------------------------
\* Cache key (server.js 77-79)
\* ------------------------------------------------------------------------

\* s.replace(/\s+/g, c)
RECURSIVE replaceSpaceRuns(_, _)
replaceSpaceRuns(s, c) ==
    IF s = <<>> THEN <<>>
    ELSE IF IsSpace(s[1])
         THEN <<c>> \o replaceSpaceRuns(From(s, SpanEnd(s, 1, SPACES)), c)
         ELSE <<s[1]>> \o replaceSpaceRuns(Tail(s), c)

\* `${count}` for NaN and for the integers 0..9
countString(count) ==
    IF IsNaN(count) THEN <<"N","a","N">> ELSE <<DigitChars[count + 1]>>

getCacheKey(topic, count) ==
    replaceSpaceRuns(trim(toLowerCase(topic)), "_") \o <<"_">> \o countString(count)

\* ------------------------------------------------------------------------
\* Requests and inference results
\* ------------------------------------------------------------------------

\* The count of a request body: omitted, a number, or a value parseInt
\* makes NaN of
Num(n) == [kind |-> "number", n |-> n]

\* A body without count, and one whose count is not numeric ('abc', null)
NoCount == [kind |-> "omitted", n |-> 0]

TextCount == [kind |-> "text", n |-> 0]

DEFAULT_COUNT == 3

MIN_COUNT == 1

MAX_COUNT == 5

\* const { count = 3 } = req.body;  parseInt(count)
parseCount(count) ==
    CASE count.kind = "omitted" -> DEFAULT_COUNT
      [] count.kind = "number"  -> count.n
      [] OTHER                  -> NaN

\* Math.max and Math.min: NaN when an argument is NaN
mathMax(a, b) == IF IsNaN(a) \/ IsNaN(b) THEN NaN ELSE IF a > b THEN a ELSE b

mathMin(a, b) == IF IsNaN(a) \/ IsNaN(b) THEN NaN ELSE IF a < b THEN a ELSE b

\* Math.min(Math.max(parseInt(count), 1), 5)
requestedCountOf(count) == mathMin(mathMax(parseCount(count), MIN_COUNT), MAX_COUNT)

\* !prompt alone: the test without the trim, which C13_BlankPromptRejected
\* has to tell from the code
isMissing(prompt) == prompt = <<>>

\* !prompt || prompt.trim().length === 0  (a missing prompt is <<>>): trim
\* leaves nothing exactly when every character is white space
isBlank(prompt) == \A i \in 1..Len(prompt) : IsSpace(prompt[i])

\* 'Solar power'
PROMPT_SOLAR ==
    <<"S","o","l","a","r"," ","p","o","w","e","r">>
\* 'solar_power'
PROMPT_SOLAR_UNDERSCORE ==
    <<"s","o","l","a","r","_","p","o","w","e","r">>
\* ' solar  power'
PROMPT_SOLAR_SPACED ==
    <<" ","s","o","l","a","r"," "," ","p","o","w","e","r">>
\* '1. reduces emissions\n2. lowers cost\n3. is renewable'
TEXT_LIST ==
    <<"1","."," ","r","e","d","u","c","e","s"," ","e","m","i","s","s","i","o","n","s","\n","2",
      "."," ","l","o","w","e","r","s"," ","c","o","s","t","\n","3","."," ","i","s"," ","r","e",
      "n","e","w","a","b","l","e">>
\* 'it reduces pollution a lot'
TEXT_ONE ==
    <<"i","t"," ","r","e","d","u","c","e","s"," ","p","o","l","l","u","t","i","o","n"," ","a",
      " ","l","o","t">>
\* ' reducing the cost of power. And more'
TEXT_SINGLE ==
    <<" ","r","e","d","u","c","i","n","g"," ","t","h","e"," ","c","o","s","t"," ","o","f"," ",
      "p","o","w","e","r","."," ","A","n","d"," ","m","o","r","e">>
\* '1. Saves oil.\n2. reduces emissions'
TEXT_TEN ==
    <<"1","."," ","S","a","v","e","s"," ","o","i","l",".","\n","2","."," ","r","e","d","u",
      "c","e","s"," ","e","m","i","s","s","i","o","n","s">>
\* 'cheap.'
TEXT_SHORT ==
    <<"c","h","e","a","p",".">>

\* ------------------------------------------------------------------------
\* Bounds
\* ------------------------------------------------------------------------

\* Request handlers: the requests in flight at once
MaxReq == 2

\* The requests with a prompt the environment sends in all, when they may
\* overlap
MaxPosts == 2

\* The same when they come one at a time for several cache keys
MaxCachePosts == 3

\* The same when every shape of model output is tried
MaxVariedPosts == 2

\* The last value of the clock
MaxTime == 1

\* Handles told apart when requests never stop arriving: later loads share
\* the last one
MaxLoads == 3

\* Hit counts told apart when requests never stop arriving
MaxHits == 2

\* const MAX_CACHE_SIZE = 200 in server.js; scaled down so that eviction
\* happens within the bounds
MAX_CACHE_SIZE == 2

\* ------------------------------------------------------------------------
\* Scenarios
\* ------------------------------------------------------------------------

\* What the environment may send and answer: the prompts and counts of the
\* request bodies, the texts the model generates for a structured prompt and
\* for a single starter, how many requests it keeps in flight at once, how
\* many requests with a prompt it sends in all, and whether it goes on
\* sending requests for ever instead.

\* Overlapping requests for one cache key: a blank prompt and a topic, one
\* sentence from the model, which leaves a gap of two
SERVER_INPUTS ==
    [prompts     |-> {<<" ">>, PROMPT_SOLAR_SPACED},
     counts      |-> {Num(3)},
     structTexts |-> {TEXT_ONE},
     singleTexts |-> {TEXT_SINGLE},
     handlers    |-> MaxReq,
     posts       |-> MaxPosts,
     endless     |-> FALSE]

\* One request at a time for three cache keys: a missing prompt, a prompt of
\* white space and a topic, three counts
CACHE_INPUTS ==
    [prompts     |-> {<<>>, <<" ">>, PROMPT_SOLAR_SPACED},
     counts      |-> {Num(1), Num(3), Num(5)},
     structTexts |-> {TEXT_LIST},
     singleTexts |-> {TEXT_SINGLE},
     handlers    |-> 1,
     posts       |-> MaxCachePosts,
     endless     |-> FALSE]

\* One request at a time: two spellings of the topic, and every shape of
\* model output
GENERATION_INPUTS ==
    [prompts     |-> {<<>>, <<" ">>, PROMPT_SOLAR, PROMPT_SOLAR_SPACED},
     counts      |-> {Num(1), Num(3), Num(5)},
     structTexts |-> {TEXT_LIST, TEXT_ONE, <<>>},
     singleTexts |-> {TEXT_SINGLE, TEXT_SHORT},
     handlers    |-> 1,
     posts       |-> MaxVariedPosts,
     endless     |-> FALSE]

\* One request at a time for one topic: a missing prompt, a prompt of white
\* space, and every kind of count
COUNT_INPUTS ==
    [prompts     |-> {<<>>, <<" ">>, PROMPT_SOLAR},
     counts      |-> {NoCount, Num(0), Num(2), Num(99), TextCount},
     structTexts |-> {TEXT_LIST},
     singleTexts |-> {TEXT_SINGLE},
     handlers    |-> 1,
     posts       |-> MaxVariedPosts,
     endless     |-> FALSE]

\* Overlapping requests for two cache keys: one topic and two counts, one
\* sentence from the model, which is enough for one count and leaves a gap
\* of one for the other
OVERLAP_INPUTS ==
    [prompts     |-> {<<>>, PROMPT_SOLAR},
     counts      |-> {Num(1), Num(2)},
     structTexts |-> {TEXT_ONE},
     singleTexts |-> {TEXT_SINGLE},
     handlers    |-> MaxReq,
     posts       |-> MaxCachePosts,
     endless     |-> FALSE]

\* One request at a time: two topics that differ in a space and an
\* underscore, numbered lists from the model, one of them with a first item
\* of ten characters that ends in a full stop
EXTRACT_INPUTS ==
    [prompts     |-> {<<>>, PROMPT_SOLAR, PROMPT_SOLAR_UNDERSCORE},
     counts      |-> {Num(1), Num(3)},
     structTexts |-> {TEXT_LIST, TEXT_TEN},
     singleTexts |-> {TEXT_SINGLE},
     handlers    |-> 1,
     posts       |-> MaxVariedPosts,
     endless     |-> FALSE]

\* Overlapping requests for one cache key that never stop arriving
LIVE_INPUTS ==
    [prompts     |-> {<<" ">>, PROMPT_SOLAR_SPACED},
     counts      |-> {Num(5)},
     structTexts |-> {TEXT_LIST},
     singleTexts |-> {TEXT_SINGLE},
     handlers    |-> MaxReq,
     posts       |-> 0,
     endless     |-> TRUE]

\* ------------------------------------------------------------------------
\* State
\* ------------------------------------------------------------------------

VARIABLES
    inputs,           \* what the environment may send and answer (never changes)
    generator,        \* the pipeline handle, NULL before the first pipeline()
    tokenizer,        \* never assigned by server.js
    modelLoading,     \* the gate's flag
    generationCache,  \* the Map, as the sequence of its entries in iteration order;
                      \* an entry also records, as history, the topic and the
                      \* count its points were generated for
    cacheHits,        \* the Map of hit counts, as a function on its keys
    now,              \* Date.now()
    pc,               \* where each process is suspended
    req,              \* each handler's request body
    points,           \* each handler's points in generateOptimizedSet
    singleResults,    \* each handler's results of batchGenerate so far
    inFlight,         \* each handler's inference calls of generateOptimizedSet
                      \* that have not settled
    lastResp,         \* the latest response sent
    posts,            \* history: requests with a prompt received so far
    loadCount,        \* history: loads started so far
    lastLoad,         \* history: the outcome of the latest load
    pipelineFailed,   \* history: some pipeline(...) has rejected
    waitedOnFailed,   \* history: the handler was polling when a load failed
    returned,         \* history: the handles loadModel returned after a
                      \* successful load
    inferenceWorked,  \* history: some inference call has returned a result
    solo,             \* history: the handler that arrived right after lastResp
                      \* and has been the only one handled since (0: none)
    evicted,          \* history: the latest eviction
    threw             \* history: an inference call of the handler's generation threw

vars ==
    <<inputs, generator, tokenizer, modelLoading, generationCache, cacheHits, now, pc,
      req, points, singleResults, inFlight, lastResp, posts, loadCount, lastLoad, pipelineFailed,
      waitedOnFailed, returned, inferenceWorked, solo, evicted, threw>>

NULL == 0

\* initializeServer is process 0, the request handlers are 1..MaxReq
STARTUP == 0

Reqs == 1..MaxReq

Procs == {STARTUP} \cup Reqs

NoReq == [prompt |-> <<>>, count |-> Num(0)]

NoResp == [http |-> 0, success |-> FALSE, cached |-> FALSE, topic |-> <<>>,
           requestedCount |-> 0, points |-> <<>>]

\* ------------------------------------------------------------------------
\* Result cache (server.js 72-99, 366-372, 393-400)
\* ------------------------------------------------------------------------

cacheKeys(cache) == {cache[i].key : i \in 1..Len(cache)}

\* generationCache.has(key)
cacheHas(cache, key) == key \in cacheKeys(cache)

cacheIndex(cache, key) == CHOOSE i \in 1..Len(cache) : cache[i].key = key

\* generationCache.get(key)
cacheGet(cache, key) == cache[cacheIndex(cache, key)]

\* generationCache.set(key, entry): an existing key keeps its place in the
\* iteration order, a new key goes last
cacheSet(cache, key, entry) ==
    IF cacheHas(cache, key)
    THEN [cache EXCEPT ![cacheIndex(cache, key)] = entry]
    ELSE Append(cache, entry)

\* generationCache.delete(key)
cacheDelete(cache, key) == SelectSeq(cache, LAMBDA e : e.key # key)

\* cacheHits.get(key) || 0
hitsGet(hits, key) == IF key \in DOMAIN hits THEN hits[key] ELSE 0

\* cacheHits.set(key, n)
hitsSet(hits, key, n) ==
    [k \in DOMAIN hits \cup {key} |-> IF k = key THEN n ELSE hits[k]]

\* cacheHits.delete(key)
hitsDelete(hits, key) == [k \in DOMAIN hits \ {key} |-> hits[k]]

\* data.lastUsed <= oldestTime: the variant of the comparison that
\* C5_EvictsOldestFirst has to tell from the code
isOlderOrSame(lastUsed, oldestTime) == lastUsed <= oldestTime

\* data.lastUsed < oldestTime
isOlder(lastUsed, oldestTime) == lastUsed < oldestTime

\* The loop of cleanCache from entry i on: the oldestKey it ends with
\* (<<>> is null)
RECURSIVE oldestScan(_, _, _, _)
oldestScan(cache, i, oldestKey, oldestTime) ==
    IF i > Len(cache) THEN oldestKey
    ELSE IF isOlder(cache[i].lastUsed, oldestTime)
         THEN oldestScan(cache, i + 1, cache[i].key, cache[i].lastUsed)
         ELSE oldestScan(cache, i + 1, oldestKey, oldestTime)

\* The key cleanCache deletes at time t, <<>> when it deletes none
cleanCacheVictim(cache, t) ==
    IF Len(cache) >= MAX_CACHE_SIZE THEN oldestScan(cache, 1, <<>>, t) ELSE <<>>

\* if (oldestKey) generationCache.delete(oldestKey)
deleteOldest(cache, oldestKey) ==
    IF oldestKey # <<>> THEN cacheDelete(cache, oldestKey) ELSE cache

\* if (oldestKey) cacheHits.delete(oldestKey)
deleteOldestHits(hits, oldestKey) ==
    IF oldestKey # <<>> THEN hitsDelete(hits, oldestKey) ELSE hits

\* generationCache after cleanCache() at time t
cleanCache(cache, t) == deleteOldest(cache, cleanCacheVictim(cache, t))

\* cacheHits after cleanCache() at time t
cleanCacheHits(cache, hits, t) == deleteOldestHits(hits, cleanCacheVictim(cache, t))

\* ------------------------------------------------------------------------
\* Handlers
\* ------------------------------------------------------------------------

\* The state once server.js has been evaluated: initializeServer() has called
\* loadModel(), which set modelLoading and is suspended in pipeline(...)
Start(environment) ==
    /\ inputs = environment
    /\ generator = NULL
    /\ tokenizer = NULL
    /\ modelLoading = TRUE
    /\ generationCache = <<>>
    /\ cacheHits = <<>>
    /\ now = 0
    /\ pc = [p \in Procs |-> IF p = STARTUP THEN "pipeline" ELSE "idle"]
    /\ req = [r \in Reqs |-> NoReq]
    /\ points = [r \in Reqs |-> <<>>]
    /\ singleResults = [r \in Reqs |-> <<>>]
    /\ inFlight = [r \in Reqs |-> 0]
    /\ lastResp = NoResp
    /\ posts = 0
    /\ loadCount = 1
    /\ lastLoad = "running"
    /\ pipelineFailed = FALSE
    /\ waitedOnFailed = [r \in Reqs |-> FALSE]
    /\ returned = {}
    /\ inferenceWorked = FALSE
    /\ solo = 0
    /\ evicted = "none"
    /\ threw = [r \in Reqs |-> FALSE]

Init == Start(SERVER_INPUTS)

InitCount == Start(COUNT_INPUTS)

InitOverlap == Start(OVERLAP_INPUTS)

InitExtract == Start(EXTRACT_INPUTS)

InitLive == Start(LIVE_INPUTS)

InitCache == Start(CACHE_INPUTS)

InitGeneration == Start(GENERATION_INPUTS)

\* A history counter after one more event: when requests never stop
\* arriving it stays at its cap, so that the states are finitely many
counted(n, cap) == IF inputs.endless /\ n >= cap THEN n ELSE n + 1

topicOf(r) == trim(req[r].prompt)

requestedCount(r) == requestedCountOf(req[r].count)

cacheKey(r) == getCacheKey(topicOf(r), requestedCount(r))

Success(r, pts, isCached) ==
    [http |-> 200, success |-> TRUE, cached |-> isCached, topic |-> topicOf(r),
     requestedCount |-> requestedCount(r), points |-> pts]

Failure(status) ==
    [http |-> status, success |-> FALSE, cached |-> FALSE, topic |-> <<>>,
     requestedCount |-> 0, points |-> <<>>]

\* res.json / res.status(...).json of handler r, which ends the handler
Respond(r, response) ==
    /\ lastResp' = response
    /\ solo' = 0
    /\ pc' = [pc EXCEPT ![r] = "idle"]
    /\ req' = [req EXCEPT ![r] = NoReq]
    /\ points' = [points EXCEPT ![r] = <<>>]
    /\ singleResults' = [singleResults EXCEPT ![r] = <<>>]
    /\ waitedOnFailed' = [waitedOnFailed EXCEPT ![r] = FALSE]
    /\ threw' = [threw EXCEPT ![r] = FALSE]

\* Handlers are interchangeable: a request takes the first idle one
FirstIdle(r) ==
    /\ r <= inputs.handlers
    /\ pc[r] = "idle"
    /\ \A q \in Reqs : q < r => pc[q] # "idle"

\* A POST /api/generate with a missing or blank prompt (server.js 355-358)
Reject(r) ==
    /\ FirstIdle(r)
    /\ \E prompt \in inputs.prompts : isBlank(prompt)
    /\ lastResp' = Failure(400)
    /\ solo' = 0
    /\ UNCHANGED <<inputs, inFlight, posts, generator, tokenizer, modelLoading, generationCache, cacheHits,
                   now, pc, req, points, singleResults, loadCount, lastLoad,
                   pipelineFailed, waitedOnFailed, returned, inferenceWorked,
                   evicted, threw>>

\* A POST /api/generate with a prompt: the handler runs up to its first
\* suspension, in loadModel (server.js 351-361, 30-39)
Arrive(r) ==
    /\ FirstIdle(r)
    /\ inputs.endless \/ posts < inputs.posts
    /\ posts' = counted(posts, 0)
    /\ \E prompt \in inputs.prompts, count \in inputs.counts :
          /\ ~isBlank(prompt)
          /\ req' = [req EXCEPT ![r] = [prompt |-> prompt, count |-> count]]
    /\ solo' = IF \A q \in Reqs \ {r} : pc[q] = "idle" THEN r ELSE 0
    /\ IF generator # NULL /\ tokenizer # NULL
       THEN /\ pc' = [pc EXCEPT ![r] = "loaded"]
            /\ returned' = IF lastLoad = "ok" THEN returned \cup {generator}
                           ELSE returned
            /\ UNCHANGED <<modelLoading, loadCount, lastLoad>>
       ELSE IF modelLoading
       THEN /\ pc' = [pc EXCEPT ![r] = "poll"]
            /\ UNCHANGED <<modelLoading, loadCount, lastLoad, returned>>
       ELSE /\ modelLoading' = TRUE
            /\ loadCount' = counted(loadCount, MaxLoads)
            /\ lastLoad' = "running"
            /\ pc' = [pc EXCEPT ![r] = "pipeline"]
            /\ UNCHANGED returned
    /\ UNCHANGED <<inputs, inFlight, generator, tokenizer, generationCache, cacheHits, now, points,
                   singleResults, lastResp, pipelineFailed, waitedOnFailed,
                   inferenceWorked, evicted, threw>>

\* pipeline(...) resolves; the load in progress is the latest one started
\* (server.js 44-56)
PipelineDone(p) ==
    /\ pc[p] = "pipeline"
    /\ generator' = loadCount
    /\ pc' = [pc EXCEPT ![p] = "prewarm"]
    /\ UNCHANGED <<inputs, inFlight, posts, tokenizer, modelLoading, generationCache, cacheHits,
                   now, req, points, singleResults, lastResp, loadCount, lastLoad,
                   pipelineFailed, waitedOnFailed, returned, inferenceWorked, solo,
                   evicted, threw>>

\* The pre-warm generation resolves: loadModel returns (server.js 56-64)
PrewarmDone(p) ==
    /\ pc[p] = "prewarm"
    /\ modelLoading' = FALSE
    /\ lastLoad' = "ok"
    /\ returned' = returned \cup {generator}
    /\ inferenceWorked' = TRUE
    /\ pc' = [pc EXCEPT ![p] = IF p = STARTUP THEN "done" ELSE "loaded"]
    /\ UNCHANGED <<inputs, inFlight, posts, generator, tokenizer, generationCache, cacheHits, now, req,
                   points, singleResults, lastResp, loadCount, pipelineFailed,
                   waitedOnFailed, solo, evicted, threw>>

\* pipeline(...) or the pre-warm generation rejects: loadModel throws;
\* initializeServer logs the error, a request handler answers 500
\* (server.js 65-69, 416-424, 436-438)
LoadFail(p) ==
    /\ pc[p] \in {"pipeline", "prewarm"}
    /\ modelLoading' = FALSE
    /\ lastLoad' = "failed"
    /\ pipelineFailed' = (pipelineFailed \/ pc[p] = "pipeline")
    /\ IF p = STARTUP
       THEN /\ pc' = [pc EXCEPT ![p] = "done"]
            /\ waitedOnFailed' = [r \in Reqs |-> waitedOnFailed[r] \/ pc[r] = "poll"]
            /\ UNCHANGED <<req, points, singleResults, lastResp, solo, threw>>
       ELSE /\ lastResp' = Failure(500)
            /\ solo' = 0
            /\ pc' = [pc EXCEPT ![p] = "idle"]
            /\ req' = [req EXCEPT ![p] = NoReq]
            /\ waitedOnFailed' = [r \in Reqs |-> r # p /\ (waitedOnFailed[r] \/ pc[r] = "poll")]
            /\ UNCHANGED <<points, singleResults, threw>>
    /\ UNCHANGED <<inputs, inFlight, posts, generator, tokenizer, generationCache, cacheHits, now,
                   loadCount, returned, inferenceWorked, evicted>>

\* The polling loop of loadModel finds modelLoading false and returns
\* (server.js 32-37)
PollReturn(r) ==
    /\ pc[r] = "poll"
    /\ ~modelLoading
    /\ returned' = IF lastLoad = "ok" THEN returned \cup {generator} ELSE returned
    /\ pc' = [pc EXCEPT ![r] = "loaded"]
    /\ UNCHANGED <<inputs, inFlight, posts, generator, tokenizer, modelLoading, generationCache, cacheHits,
                   now, req, points, singleResults, lastResp, loadCount, lastLoad,
                   pipelineFailed, waitedOnFailed, inferenceWorked, solo, evicted,
                   threw>>

\* After await loadModel(), a cache hit (server.js 363-385)
Hit(r) ==
    /\ pc[r] = "loaded"
    /\ \E key \in {cacheKey(r)} :
          /\ cacheHas(generationCache, key)
          /\ \E cached \in {cacheGet(generationCache, key)} :
                /\ generationCache' = cacheSet(generationCache, key,
                                               [cached EXCEPT !.lastUsed = now])
                /\ cacheHits' = hitsSet(cacheHits, key,
                                         counted(hitsGet(cacheHits, key), MaxHits))
                /\ Respond(r, Success(r, cached.points, TRUE))
    /\ UNCHANGED <<inputs, inFlight, posts, generator, tokenizer, modelLoading, now, loadCount, lastLoad,
                   pipelineFailed, returned, inferenceWorked, evicted>>

\* After await loadModel(), a cache miss: generateOptimizedSet runs up to its
\* first suspension (server.js 387-390, 161-182).  Calling a null generator
\* throws a TypeError inside the try block, which returns the fallback points.
Miss(r) ==
    /\ pc[r] = "loaded"
    /\ ~cacheHas(generationCache, cacheKey(r))
    /\ IF generator = NULL
       THEN /\ points' = [points EXCEPT ![r] =
                   generateFallbackPoints(topicOf(r), requestedCount(r))]
            /\ threw' = [threw EXCEPT ![r] = TRUE]
            /\ pc' = [pc EXCEPT ![r] = "generated"]
            /\ UNCHANGED inFlight
       ELSE /\ pc' = [pc EXCEPT ![r] = "structured"]
            /\ inFlight' = [inFlight EXCEPT ![r] = 1]
            /\ UNCHANGED <<points, threw>>
    /\ UNCHANGED <<inputs, posts, generator, tokenizer, modelLoading, generationCache, cacheHits,
                   now, req, singleResults, lastResp, loadCount, lastLoad,
                   pipelineFailed, waitedOnFailed, returned, inferenceWorked, solo,
                   evicted>>

MAX_GAP == 3

\* needed > 0 && needed <= 3, for needed = requestedCount - points.length
fillsGap(count, n) ==
    /\ ~IsNaN(count)
    /\ count - n > 0
    /\ count - n <= MAX_GAP

\* The gap-fill loop of generateOptimizedSet over singleResults
\* (server.js 205-210)
RECURSIVE pushSinglePoints(_, _, _)
pushSinglePoint(pts, cleanPoint) ==
    IF cleanPoint # <<>> /\ Len(cleanPoint) > MIN_POINT_LENGTH
    THEN Append(pts, cleanPoint)
    ELSE pts

pushSinglePoints(pts, results, topic) ==
    IF results = <<>> THEN pts
    ELSE pushSinglePoints(
             pushSinglePoint(pts, cleanUpSinglePoint(Head(results), topic)),
             Tail(results), topic)

\* const batchSize = 1 in batchGenerate
BATCH_SIZE == 1

\* A batch of all the prompts that remain: the variant that
\* C17_OneCallInFlight has to tell from the code
wholeBatch(remaining) == remaining

\* prompts.slice(i, i + batchSize).length when remaining prompts are left:
\* the calls batchGenerate starts together
batchLength(remaining) == IF remaining < BATCH_SIZE THEN remaining ELSE BATCH_SIZE

\* The structured inference call resolves: extraction, then either the return
\* or the first call of batchGenerate (server.js 184-203, 213-214)
StructuredDone(r) ==
    /\ pc[r] = "structured"
    /\ \E text \in inputs.structTexts, count \in {requestedCount(r)} :
          \E pts \in {parseAndExtractPoints(text, topicOf(r), count)} :
             IF AtLeast(Len(pts), count)
             THEN /\ points' = [points EXCEPT ![r] = slice0(pts, count)]
                  /\ inFlight' = [inFlight EXCEPT ![r] = 0]
                  /\ pc' = [pc EXCEPT ![r] = "generated"]
             ELSE IF fillsGap(count, Len(pts))
             THEN /\ points' = [points EXCEPT ![r] = pts]
                  /\ inFlight' = [inFlight EXCEPT ![r] = batchLength(count - Len(pts))]
                  /\ pc' = [pc EXCEPT ![r] = "gap"]
             ELSE /\ points' = [points EXCEPT ![r] = slice0(pts, count)]
                  /\ inFlight' = [inFlight EXCEPT ![r] = 0]
                  /\ pc' = [pc EXCEPT ![r] = "generated"]
    /\ inferenceWorked' = TRUE
    /\ UNCHANGED <<inputs, posts, generator, tokenizer, modelLoading, generationCache, cacheHits,
                   now, req, singleResults, lastResp, loadCount, lastLoad,
                   pipelineFailed, waitedOnFailed, returned, solo, evicted, threw>>

\* A single-starter call of batchGenerate resolves; once the calls of its
\* batch have all resolved batchGenerate starts the next batch, or returns and
\* the results are cleaned (server.js 128-158, 205-214)
GapDone(r) ==
    /\ pc[r] = "gap"
    /\ \E text \in inputs.singleTexts, count \in {requestedCount(r)} :
          \E results \in {Append(singleResults[r], text)} :
             IF Len(results) = count - Len(points[r])
             THEN /\ points' = [points EXCEPT ![r] =
                         slice0(pushSinglePoints(points[r], results, topicOf(r)),
                                count)]
                  /\ singleResults' = [singleResults EXCEPT ![r] = <<>>]
                  /\ inFlight' = [inFlight EXCEPT ![r] = 0]
                  /\ pc' = [pc EXCEPT ![r] = "generated"]
             ELSE /\ singleResults' = [singleResults EXCEPT ![r] = results]
                  /\ inFlight' = [inFlight EXCEPT ![r] =
                         IF inFlight[r] > 1 THEN inFlight[r] - 1
                         ELSE batchLength(count - Len(points[r]) - Len(results))]
                  /\ UNCHANGED <<points, pc>>
    /\ inferenceWorked' = TRUE
    /\ UNCHANGED <<inputs, posts, generator, tokenizer, modelLoading, generationCache, cacheHits,
                   now, req, lastResp, loadCount, lastLoad, pipelineFailed,
                   waitedOnFailed, returned, solo, evicted, threw>>

\* A catch block that tops the statements extracted so far up with fallback
\* statements: the variant that C15_FailureGivesFallback has to tell from the
\* code
topsUpWithFallback(r) ==
    /\ pc[r] \in {"structured", "gap"}
    /\ points' = [points EXCEPT ![r] =
           slice0(points[r] \o fallbacks(topicOf(r)), requestedCount(r))]
    /\ singleResults' = [singleResults EXCEPT ![r] = <<>>]
    /\ inFlight' = [inFlight EXCEPT ![r] = 0]
    /\ threw' = [threw EXCEPT ![r] = TRUE]
    /\ pc' = [pc EXCEPT ![r] = "generated"]
    /\ UNCHANGED <<inputs, posts, generator, tokenizer, modelLoading, generationCache, cacheHits,
                   now, req, lastResp, loadCount, lastLoad, pipelineFailed,
                   waitedOnFailed, returned, inferenceWorked, solo, evicted>>

\* An inference call of generateOptimizedSet rejects, in the structured
\* attempt or in batchGenerate: the catch block returns the fallback points
\* (server.js 216-219)
GenerationFail(r) ==
    /\ pc[r] \in {"structured", "gap"}
    /\ points' = [points EXCEPT ![r] =
           generateFallbackPoints(topicOf(r), requestedCount(r))]
    /\ singleResults' = [singleResults EXCEPT ![r] = <<>>]
    /\ inFlight' = [inFlight EXCEPT ![r] = 0]
    /\ threw' = [threw EXCEPT ![r] = TRUE]
    /\ pc' = [pc EXCEPT ![r] = "generated"]
    /\ UNCHANGED <<inputs, posts, generator, tokenizer, modelLoading, generationCache, cacheHits,
                   now, req, lastResp, loadCount, lastLoad, pipelineFailed,
                   waitedOnFailed, returned, inferenceWorked, solo, evicted>>

\* GET /api/status: the status it answers with in the current state; the
\* handler reads generator and modelLoading, awaits nothing and changes
\* nothing (server.js 322-339)
apiStatus ==
    IF generator = NULL /\ ~modelLoading THEN "not_loaded"
    ELSE IF modelLoading THEN "loading"
    ELSE "ready"

\* Whether another entry of cache is as old as the entry of key
sharesLastUsed(cache, key) ==
    \E i \in 1..Len(cache) :
        /\ cache[i].key # key
        /\ cache[i].lastUsed = cacheGet(cache, key).lastUsed

\* After await generateOptimizedSet(): cleanCache, the insert and the response
\* (server.js 391-414)
Finish(r) ==
    /\ pc[r] = "generated"
    /\ \E key \in {cacheKey(r)}, oldestKey \in {cleanCacheVictim(generationCache, now)} :
          /\ generationCache' =
                 cacheSet(cleanCache(generationCache, now), key,
                          [key |-> key, points |-> points[r], lastUsed |-> now,
                           topic |-> topicOf(r), count |-> requestedCount(r)])
          /\ cacheHits' = cleanCacheHits(generationCache, cacheHits, now)
          /\ evicted' = IF oldestKey = <<>> THEN evicted
                        ELSE IF sharesLastUsed(generationCache, oldestKey)
                        THEN "tie" ELSE "single"
    /\ Respond(r, Success(r, points[r], FALSE))
    /\ UNCHANGED <<inputs, inFlight, posts, generator, tokenizer, modelLoading, now, loadCount, lastLoad,
                   pipelineFailed, returned, inferenceWorked>>

\* The clock advances
Tick ==
    /\ now < MaxTime
    /\ now' = now + 1
    /\ UNCHANGED <<inputs, inFlight, posts, generator, tokenizer, modelLoading, generationCache, cacheHits,
                   pc, req, points, singleResults, lastResp, loadCount, lastLoad,
                   pipelineFailed, waitedOnFailed, returned, inferenceWorked, solo,
                   evicted, threw>>

Next ==
    \/ \E r \in Reqs : Reject(r)
    \/ \E r \in Reqs : Arrive(r)
    \/ \E p \in Procs : PipelineDone(p)
    \/ \E p \in Procs : PrewarmDone(p)
    \/ \E p \in Procs : LoadFail(p)
    \/ \E r \in Reqs : PollReturn(r)
    \/ \E r \in Reqs : Hit(r)
    \/ \E r \in Reqs : Miss(r)
    \/ \E r \in Reqs : StructuredDone(r)
    \/ \E r \in Reqs : GapDone(r)
    \/ \E r \in Reqs : GenerationFail(r)
    \/ \E r \in Reqs : Finish(r)
    \/ Tick

\* Overlapping requests for one cache key
Spec == Init /\ [][Next]_vars

\* One request at a time for three cache keys
SpecCache == InitCache /\ [][Next]_vars

\* One request at a time, every shape of model output
SpecGeneration == InitGeneration /\ [][Next]_vars

\* One request at a time, every kind of count
SpecCount == InitCount /\ [][Next]_vars

\* Overlapping requests for two cache keys
SpecOverlap == InitOverlap /\ [][Next]_vars

\* One request at a time, two topics and numbered lists
SpecExtract == InitExtract /\ [][Next]_vars

\* Where a process can be suspended
Positions ==
    {"idle", "pipeline", "prewarm", "poll", "loaded", "structured", "gap", "generated",
     "done"}

\* Process p, suspended at position at, moves on: the promise it awaits
\* settles, either way, and its continuation runs
Leaves(p, at) ==
    /\ pc[p] = at
    /\ \E to \in Positions \ {at} : pc' = [pc EXCEPT ![p] = to]

\* What the scheduling guarantees: a pending pipeline(...) or inference call
\* settles and a continuation that is ready runs, so no process stays for
\* ever where it awaits one; the timer of the polling loop fires again and
\* again, each time testing modelLoading as it is then, so the loop is left
\* if modelLoading stays false.  Nothing obliges the environment to send a
\* request or the clock to advance.
Fairness ==
    /\ \A p \in Procs : WF_pc(Leaves(p, "pipeline")) /\ WF_pc(Leaves(p, "prewarm"))
    /\ \A r \in Reqs : WF_vars(PollReturn(r))
    /\ \A r \in Reqs : WF_pc(Leaves(r, "loaded")) /\ WF_pc(Leaves(r, "structured"))
    /\ \A r \in Reqs : WF_pc(Leaves(r, "gap")) /\ WF_pc(Leaves(r, "generated"))

\* Overlapping requests that never stop arriving, under Fairness
SpecLive == InitLive /\ [][Next]_vars /\ Fairness

\* ------------------------------------------------------------------------
\* Properties
\* ------------------------------------------------------------------------

\* Handler r sends its response in this step
Answers(r) == pc[r] # "idle" /\ pc'[r] = "idle"

\* A call of loadModel by handler r arrives in this step
Calls(r) == pc[r] = "idle" /\ pc'[r] # "idle"

\* The cache key of the request a successful response answers
responseKey(response) == getCacheKey(response.topic, response.requestedCount)

\* The count a cache key ends with, for the counts 0..9
keyCount(key) == IndexOf(key[Len(key)], DigitChars) - 1

\* The processes that are loading the model
Loading == {p \in Procs : pc[p] \in {"pipeline", "prewarm"}}

\* The well-formedness of a statement
wellFormed(p) ==
    /\ p # <<>>
    /\ IsUpper(p[1])
    /\ endsWithTerminator(p)
    /\ Len(p) <= MAX_POINT_LENGTH
    /\ ~includes(p, UNDEFINED_WORD)
    /\ ~includes(p, NULL_WORD)

\* C1: a request that arrives right after a successful response, with no
\* other request in flight or in between, and that has the normalized topic
\* and the count of the request answered, is answered with success,
\* cached = true and the same points in the same order.
C1_BackToBackIsCached ==
    [][\A r \in Reqs :
          (/\ solo = r
           /\ Answers(r)
           /\ lastResp.success
           /\ responseKey(lastResp) = cacheKey(r))
          => (/\ lastResp'.success
              /\ lastResp'.cached
              /\ lastResp'.points = lastResp.points)]_vars

\* C2: for a requested count in 1..5, every successful response, fresh or
\* cached, carries at most requestedCount points, and every cache entry
\* carries at most as many points as the count its key ends with.
C2_AtMostRequestedCount ==
    /\ (lastResp.success /\ lastResp.requestedCount \in MIN_COUNT..MAX_COUNT)
          => Len(lastResp.points) <= lastResp.requestedCount
    /\ \A i \in 1..Len(generationCache) :
          IsDigit(generationCache[i].key[Len(generationCache[i].key)])
          => Len(generationCache[i].points) <= keyCount(generationCache[i].key)

\* C2 at work: a request for five points has been answered from the cache
\* with five points that the model generated
C2_Witness ==
    /\ lastResp.success
    /\ lastResp.cached
    /\ lastResp.requestedCount = MAX_COUNT
    /\ Len(lastResp.points) = MAX_COUNT
    /\ lastResp.points # fallbacks(lastResp.topic)
    /\ \E i \in 1..Len(generationCache) : generationCache[i].points = lastResp.points

\* C3: while no inference call has returned a result (and no pipeline
\* creation has failed), every request with a prompt that has been answered
\* was answered 200 with success and exactly the first requestedCount
\* statements of the fallback list.
C3_FallbackWhenInferenceFails ==
    (~inferenceWorked /\ ~pipelineFailed /\ lastResp.http \notin {0, 400})
    => /\ lastResp.http = 200
       /\ lastResp.success
       /\ lastResp.points =
              SubSeq(fallbacks(lastResp.topic), 1, lastResp.requestedCount)

\* C4: the result cache never holds more than MAX_CACHE_SIZE entries.
C4_CacheBound == Len(generationCache) <= MAX_CACHE_SIZE

C6_LoadsOnce ==
    [][returned # {}
       => /\ loadCount' = loadCount
          /\ \A r \in Reqs : Calls(r) => pc'[r] = "loaded"]_vars

\* C7: a call that was waiting on a load that failed returns no handle (it
\* leaves the polling loop only by failing, which answers the request 500),
\* and after a failed load the gate is not loading.
C7_LoadFailurePropagates ==
    /\ \A r \in Reqs : waitedOnFailed[r] => pc[r] = "poll"
    /\ lastLoad = "failed" => ~modelLoading

\* C8: no two loads are in progress at once; a call that arrives while a
\* load is in progress starts none and suspends in the polling loop, which it
\* leaves only when no load is in progress; all calls that return after a
\* successful load return the same handle.
C8_OneLoadOneHandle ==
    [][/\ Cardinality(Loading') <= 1
       /\ \A r \in Reqs :
             (Calls(r) /\ modelLoading)
             => (pc'[r] = "poll" /\ loadCount' = loadCount)
       /\ \A r \in Reqs :
             (pc[r] = "poll" /\ pc'[r] # "poll") => ~modelLoading
       /\ Cardinality(returned') <= 1]_vars

\* C9: for a requested count in 1..5, when no inference call of the
\* generation threw, generateOptimizedSet returns exactly requestedCount
\* statements.
C9_ShortResultsArePadded ==
    \A r \in Reqs :
        (/\ pc[r] = "generated"
         /\ ~threw[r]
         /\ requestedCount(r) \in MIN_COUNT..MAX_COUNT)
        => Len(points[r]) = requestedCount(r)

\* C10: every statement of a successful response is non-empty, starts with
\* an uppercase letter, ends in '.', '!' or '?', has at most 200 characters
\* and contains neither "undefined" nor "null".
C10_StatementsWellFormed ==
    lastResp.success
    => \A i \in 1..Len(lastResp.points) : wellFormed(lastResp.points[i])

\* C11: every POST /api/generate that a handler has taken up is eventually
\* answered, the handler being free again, also when it is suspended in the
\* polling loop of loadModel while other requests keep arriving.
C11_EveryRequestAnswered == \A r \in Reqs : (pc[r] # "idle") ~> (pc[r] = "idle")

\* C12: GET /api/status answers 'ready' only when the latest load attempt
\* has completed successfully and no load is in progress.
C12_ReadyMeansLoaded == apiStatus = "ready" => (lastLoad = "ok" /\ ~modelLoading)

\* C13: a POST /api/generate whose prompt is missing, empty or only white
\* space is answered 400 and changes nothing: the step that answers 400
\* starts no load and no inference call and leaves the cache and the hit
\* counters as they are, and no handler gets past the validation with such a
\* prompt.
C13_BlankPromptRejected ==
    [][/\ (lastResp'.http = 400 /\ lastResp.http # 400) =>
            UNCHANGED <<generator, tokenizer, modelLoading, generationCache, cacheHits,
                        pc, req, points, singleResults, loadCount, lastLoad,
                        inferenceWorked>>
       /\ \A r \in Reqs : pc'[r] # "idle" => trim(req'[r].prompt) # <<>>]_vars

\* C13 at work: a blank prompt has been answered 400 while the cache held an
\* entry with a hit counted
C13_Witness ==
    /\ lastResp.http = 400
    /\ generationCache # <<>>
    /\ \E i \in 1..Len(generationCache) : hitsGet(cacheHits, generationCache[i].key) > 0

\* C14: for every count a request can carry, requestedCount, as used for the
\* cache key, for the generation and in the response, is an integer in 1..5:
\* 1 for a count below 1, 5 for a count above 5, 3 for an omitted count.
C14_RequestedCountInRange ==
    /\ \A r \in Reqs : pc[r] # "idle" =>
           /\ requestedCount(r) \in MIN_COUNT..MAX_COUNT
           /\ req[r].count.kind = "omitted" => requestedCount(r) = DEFAULT_COUNT
           /\ (req[r].count.kind = "number" /\ req[r].count.n < MIN_COUNT) =>
                  requestedCount(r) = MIN_COUNT
           /\ (req[r].count.kind = "number" /\ req[r].count.n > MAX_COUNT) =>
                  requestedCount(r) = MAX_COUNT
    /\ lastResp.success => lastResp.requestedCount \in MIN_COUNT..MAX_COUNT
    /\ \A i \in 1..Len(generationCache) :
           IsDigit(generationCache[i].key[Len(generationCache[i].key)])

\* C15: once an inference call of a request's generation has thrown, in the
\* structured attempt or in the gap fill, generateOptimizedSet has returned
\* exactly the first requestedCount statements of the fallback list and no
\* statement of the model, and the request is answered with success and
\* these statements, which are stored in the cache.
C15_FailureGivesFallback ==
    [][\A r \in Reqs :
          /\ (threw'[r] /\ requestedCount(r) \in MIN_COUNT..MAX_COUNT) =>
                 /\ pc'[r] = "generated"
                 /\ points'[r] = SubSeq(fallbacks(topicOf(r)), 1, requestedCount(r))
          /\ (threw[r] /\ Answers(r)) =>
                 /\ lastResp' = Success(r, points[r], FALSE)
                 /\ cacheHas(generationCache', cacheKey(r))
                 /\ cacheGet(generationCache', cacheKey(r)).points = points[r]]_vars

\* C15 at work: a request for five statements whose generation threw while a
\* generator was loaded has been answered with the five fallback statements,
\* which are in the cache
C15_Witness ==
    /\ generator # NULL
    /\ lastResp.success
    /\ ~lastResp.cached
    /\ lastResp.requestedCount = MAX_COUNT
    /\ lastResp.points = fallbacks(lastResp.topic)
    /\ \E i \in 1..Len(generationCache) : generationCache[i].points = lastResp.points

\* C16: a gap-fill inference call is in flight only when the structured
\* attempt extracted at least one statement but fewer than requestedCount,
\* with a shortfall of at most 3, and only while fewer than shortfall-many
\* gap-fill calls have returned.
C16_GapFillOnlyForSmallGaps ==
    \A r \in Reqs : pc[r] = "gap" =>
        /\ Len(points[r]) >= 1
        /\ Len(points[r]) < requestedCount(r)
        /\ requestedCount(r) - Len(points[r]) <= MAX_GAP
        /\ Len(singleResults[r]) < requestedCount(r) - Len(points[r])

\* C17: within one request's generation at most one inference call is in
\* flight at any time, in the structured phase and during gap fill.
C17_OneCallInFlight == \A r \in Reqs : inFlight[r] <= 1

\* C17 at work: a second gap-fill call of a request is in flight after its
\* first one has returned, while an inference call of another request is in
\* flight as well
C17_Witness ==
    \E r \in Reqs, q \in Reqs :
        /\ r # q
        /\ pc[r] = "gap"
        /\ Len(singleResults[r]) = 1
        /\ inFlight[r] = 1
        /\ inFlight[q] = 1

\* C18: an insert into the cache removes an entry only when the cache would
\* otherwise exceed MAX_CACHE_SIZE entries, that is when it is full and the
\* key inserted is not in it, and then removes exactly one; an insert that
\* overwrites a key already in the cache removes no other entry.
C18_EvictsOnlyWhenFull ==
    [][\A r \in Reqs : (Answers(r) /\ lastResp'.success /\ ~lastResp'.cached) =>
          /\ \A k \in cacheKeys(generationCache) \ cacheKeys(generationCache') :
                 /\ Len(generationCache) + 1 > MAX_CACHE_SIZE
                 /\ ~cacheHas(generationCache, cacheKey(r))
          /\ Cardinality(cacheKeys(generationCache) \ cacheKeys(generationCache')) <= 1]_vars

\* The text parseAndExtractPoints works on
normalised(rawText) == trim(collapseNewlines(rawText))

\* C19: whatever text the structured call returns, parseAndExtractPoints
\* returns at most expectedCount statements, its sentence pass adds statements
\* only if the numbered pass accepted fewer than expectedCount, and when it
\* has stopped at expectedCount accepted candidates every one of them is in
\* the list it returns, which has exactly expectedCount statements.
C19_ExtractorStopsAtExpectedCount ==
    \A r \in Reqs : (pc[r] = "structured" /\ requestedCount(r) \in MIN_COUNT..MAX_COUNT) =>
        \A text \in inputs.structTexts :
            /\ Len(parseAndExtractPoints(text, topicOf(r), requestedCount(r)))
                   <= requestedCount(r)
            /\ acceptedPoints(normalised(text), topicOf(r), requestedCount(r))
                   # numberedPoints(normalised(text), topicOf(r), requestedCount(r))
                => Len(numberedPoints(normalised(text), topicOf(r), requestedCount(r)))
                       < requestedCount(r)
            /\ Len(acceptedPoints(normalised(text), topicOf(r), requestedCount(r)))
                   >= requestedCount(r)
                => /\ parseAndExtractPoints(text, topicOf(r), requestedCount(r))
                          = acceptedPoints(normalised(text), topicOf(r), requestedCount(r))
                   /\ Len(parseAndExtractPoints(text, topicOf(r), requestedCount(r)))
                          = requestedCount(r)

\* A topic lowercased, trimmed and with each run of white space collapsed
\* to one space
normalizedTopic(topic) == replaceSpaceRuns(trim(toLowerCase(topic)), " ")

\* C20: a cache hit returns points that were generated for the same
\* normalized topic and the same requested count as those of the request it
\* answers.
C20_HitsOnlyForSameTopicAndCount ==
    [][\A r \in Reqs : (Answers(r) /\ lastResp'.success /\ lastResp'.cached) =>
          /\ normalizedTopic(cacheGet(generationCache, cacheKey(r)).topic)
                 = normalizedTopic(topicOf(r))
          /\ cacheGet(generationCache, cacheKey(r)).count = requestedCount(r)]_vars

====
